---- MODULE Spec2Model ----
(***************************************************************************)
(* SafeBackup (src/main.rs): an interactive utility that backs up,         *)
(* restores and deletes one named file of the working directory, guards    *)
(* the name with is_safe_path_component and logs to logfile.txt.           *)
(*                                                                         *)
(* Strings are sequences of one-character strings, so that contains,       *)
(* starts_with, byte indexing and format! are computed as the code         *)
(* computes them.  A file's content is such a sequence too.  The           *)
(* filesystem is a function from path strings to contents whose domain is  *)
(* the set of regular files that exist; two different path strings are     *)
(* two different files (no symlinks, no case folding, no normalisation of  *)
(* "./"), and the only directory is the base directory itself.  Paths      *)
(* follow the Unix rules of Path::join.                                    *)
(***************************************************************************)
EXTENDS Integers, Sequences, FiniteSets, TLC

VARIABLES
    fs,        \* the filesystem: path |-> content, for the regular files that exist
    pre,       \* the filesystem before the last call
    call,      \* the last call of an operation: its name, argument, result, actions
    n,         \* the number of calls so far
    pc,        \* where the run is
    mainBase,  \* main's base directory, empty until current_dir returned it
    filename,  \* the name under validation, or main's filename
    verdict,   \* what is_safe_path_component returned
    orig,      \* the content the round trip starts from
    paused,    \* whether wait_for_enter ran
    exitCode   \* the exit code of the process, -1 while it runs

vars == <<fs, pre, call, n, pc, mainBase, filename, verdict, orig, paused, exitCode>>

(***************************************************************************)
(* Bounds                                                                  *)
(***************************************************************************)
\* longest name enumerated for the validator
MaxLen == 3
\* number of calls of the file operations in one behaviour
MaxOps == 2

(***************************************************************************)
(* Strings                                                                 *)
(***************************************************************************)
AsciiLetters ==
    {"a","b","c","d","e","f","g","h","i","j","k","l","m",
     "n","o","p","q","r","s","t","u","v","w","x","y","z",
     "A","B","C","D","E","F","G","H","I","J","K","L","M",
     "N","O","P","Q","R","S","T","U","V","W","X","Y","Z"}

\* char::is_ascii_alphabetic
is_ascii_alphabetic(ch) == ch \in AsciiLetters

\* str::starts_with
starts_with(s, p) ==
    /\ Len(s) >= Len(p)
    /\ \A i \in 1..Len(p) : s[i] = p[i]

\* str::contains
contains(s, p) ==
    \E k \in 0..(Len(s) - Len(p)) : \A i \in 1..Len(p) : s[k + i] = p[i]

\* the prefix order on contents
IsPrefix(s, t) ==
    /\ Len(s) <= Len(t)
    /\ \A i \in 1..Len(s) : s[i] = t[i]

Digit(d) == CASE d = 0 -> "0" [] d = 1 -> "1" [] d = 2 -> "2" [] d = 3 -> "3"
              [] d = 4 -> "4" [] d = 5 -> "5" [] d = 6 -> "6" [] d = 7 -> "7"
              [] d = 8 -> "8" [] d = 9 -> "9"

\* Display of an unsigned integer, as format!("{}", ts) writes it
RECURSIVE ToDec(_)
ToDec(k) == IF k < 10 THEN <<Digit(k)>> ELSE ToDec(k \div 10) \o <<Digit(k % 10)>>

DotDot == <<".", ".">>
Slash == <<"/">>
DotBak == <<".", "b", "a", "k">>
LogName == <<"l","o","g","f","i","l","e",".","t","x","t">>
Sep == <<" ", "-", " ">>
Newline == <<"\n">>
BackupWord == <<"b","a","c","k","u","p"," ">>
RestoreWord == <<"r","e","s","t","o","r","e"," ">>
DeleteWord == <<"d","e","l","e","t","e"," ">>
ArrowTo == <<" ","-",">"," ">>
ArrowFrom == <<" ","<","-"," ">>
RejectedWord == <<"r","e","j","e","c","t","e","d"," ","u","n","s","a","f","e"," ",
                  "f","i","l","e","n","a","m","e"," ","i","n","p","u","t",":"," ">>

(***************************************************************************)
(* Path Validator                                                          *)
(***************************************************************************)
is_safe_path_component(name) ==
    IF contains(name, DotDot) THEN FALSE
    ELSE IF starts_with(name, Slash) THEN FALSE
    ELSE IF Len(name) > 2
            /\ is_ascii_alphabetic(name[1]) /\ name[2] = ":"
            /\ (name[3] = "\\" \/ name[3] = "/") THEN FALSE
    ELSE TRUE

\* the characters names are enumerated over: a letter, the dot, both
\* separators and the colon
NameChars == {"a", ".", "/", "\\", ":"}

RECURSIVE NamesOfLen(_)
NamesOfLen(k) ==
    IF k = 0 THEN {<<>>}
    ELSE {Append(s, c) : s \in NamesOfLen(k - 1), c \in NameChars}

Names == UNION {NamesOfLen(k) : k \in 0..MaxLen}

(***************************************************************************)
(* Filesystem                                                              *)
(***************************************************************************)
\* std::env::current_dir() of the run
BaseDir == <<"/", "w">>

\* Path::join: an absolute name replaces the base, a relative one is
\* appended after a separator
join(base, name) ==
    IF starts_with(name, Slash) THEN name
    ELSE IF Len(base) > 0 /\ base[Len(base)] = "/" THEN base \o name
    ELSE base \o Slash \o name

\* the paths that are directories: the base directory, which the empty name
\* and "." join to
Dirs == {join(BaseDir, <<>>), join(BaseDir, <<".">>)}

\* Path::exists
exists(f, p) == p \in DOMAIN f \/ p \in Dirs

Put(f, p, c) == [q \in DOMAIN f \cup {p} |-> IF q = p THEN c ELSE f[q]]

Remove(f, p) == [q \in DOMAIN f \ {p} |-> f[q]]

\* open("logfile.txt") is relative to the working directory, which is the base
LogPath == join(BaseDir, LogName)

\* the content of the log, empty when the file is absent
LogContent(f) == IF LogPath \in DOMAIN f THEN f[LogPath] ELSE <<>>

\* What the environment decides during one call: whether the copy or the
\* removal succeeds, whether the log can be opened and written, and the
\* clock (0 is also what unwrap_or(0) gives).
Envs == {[io |-> TRUE,  log |-> TRUE,  ts |-> 0],
         [io |-> TRUE,  log |-> TRUE,  ts |-> 17],
         [io |-> FALSE, log |-> TRUE,  ts |-> 17],
         [io |-> TRUE,  log |-> FALSE, ts |-> 17]}

(***************************************************************************)
(* Activity Logger                                                         *)
(***************************************************************************)
log_line(entry, env) == ToDec(env.ts) \o Sep \o entry \o Newline

append_log(f, entry, env) ==
    IF env.log THEN Put(f, LogPath, LogContent(f) \o log_line(entry, env))
    ELSE f

(***************************************************************************)
(* Path Resolver                                                           *)
(***************************************************************************)
\* the resolver without its validation
resolved_path_in_base_unchecked(base, user_name) ==
    [ok |-> TRUE, kind |-> "Ok", path |-> join(base, user_name)]

\* the resolver reporting an unsafe name as NotFound
resolved_path_in_base_notfound(base, user_name) ==
    IF ~is_safe_path_component(user_name)
    THEN [ok |-> FALSE, kind |-> "NotFound", path |-> <<>>]
    ELSE [ok |-> TRUE, kind |-> "Ok", path |-> join(base, user_name)]

resolved_path_in_base(base, user_name) ==
    IF ~is_safe_path_component(user_name)
    THEN [ok |-> FALSE, kind |-> "InvalidInput", path |-> <<>>]
    ELSE [ok |-> TRUE, kind |-> "Ok", path |-> join(base, user_name)]

(***************************************************************************)
(* File Operations.  Each returns the filesystem it leaves, the kind of    *)
(* its result ("Ok" or the io::ErrorKind) and the filesystem actions it    *)
(* performed, in order.                                                    *)
(***************************************************************************)
Act(a, p) == [act |-> a, path |-> p]

Ret(f, k, a) == [fs |-> f, kind |-> k, acc |-> a]

\* fs::copy: fails on a directory at either end and when the environment
\* refuses; otherwise the destination gets the source's bytes
copy_file(f, src, dst, env) ==
    IF ~env.io \/ src \in Dirs \/ dst \in Dirs \/ src \notin DOMAIN f
    THEN [ok |-> FALSE, kind |-> "Other", fs |-> f]
    ELSE [ok |-> TRUE, kind |-> "Ok", fs |-> Put(f, dst, f[src])]

\* fs::remove_file
remove_file(f, p, env) ==
    IF ~env.io \/ p \in Dirs \/ p \notin DOMAIN f
    THEN [ok |-> FALSE, kind |-> "Other", fs |-> f]
    ELSE [ok |-> TRUE, kind |-> "Ok", fs |-> Remove(f, p)]

bak_name_of(name) == name \o DotBak

backup_file(f, base, name, env) ==
    LET src == resolved_path_in_base(base, name) IN
    IF ~src.ok THEN Ret(f, src.kind, <<>>)
    ELSE IF ~exists(f, src.path)
    THEN Ret(f, "NotFound", <<Act("exists", src.path)>>)
    ELSE
      LET bak_name == bak_name_of(name)
          dst == resolved_path_in_base(base, bak_name) IN
      IF ~dst.ok THEN Ret(f, dst.kind, <<Act("exists", src.path)>>)
      ELSE
        LET c == copy_file(f, src.path, dst.path, env)
            a == <<Act("exists", src.path), Act("copy_from", src.path),
                   Act("copy_to", dst.path)>> IN
        IF ~c.ok THEN Ret(c.fs, c.kind, a)
        ELSE Ret(append_log(c.fs, BackupWord \o name \o ArrowTo \o bak_name, env),
                 "Ok", a)

restore_file(f, base, name, env) ==
    LET bak_name == bak_name_of(name)
        bak == resolved_path_in_base(base, bak_name) IN
    IF ~bak.ok THEN Ret(f, bak.kind, <<>>)
    ELSE IF ~exists(f, bak.path)
    THEN Ret(f, "NotFound", <<Act("exists", bak.path)>>)
    ELSE
      LET dst == resolved_path_in_base(base, name) IN
      IF ~dst.ok THEN Ret(f, dst.kind, <<Act("exists", bak.path)>>)
      ELSE
        LET c == copy_file(f, bak.path, dst.path, env)
            a == <<Act("exists", bak.path), Act("copy_from", bak.path),
                   Act("copy_to", dst.path)>> IN
        IF ~c.ok THEN Ret(c.fs, c.kind, a)
        ELSE Ret(append_log(c.fs, RestoreWord \o name \o ArrowFrom \o bak_name, env),
                 "Ok", a)

\* delete logging the request before it looks for the file
delete_file_logs_first(f, base, name, env) ==
    LET p == resolved_path_in_base(base, name) IN
    IF ~p.ok THEN Ret(f, p.kind, <<>>)
    ELSE
      LET g == append_log(f, DeleteWord \o name, env) IN
      IF ~exists(g, p.path)
      THEN Ret(g, "NotFound", <<Act("exists", p.path)>>)
      ELSE
        LET r == remove_file(g, p.path, env)
            a == <<Act("exists", p.path), Act("remove", p.path)>> IN
        Ret(r.fs, r.kind, a)

delete_file(f, base, name, env) ==
    LET p == resolved_path_in_base(base, name) IN
    IF ~p.ok THEN Ret(f, p.kind, <<>>)
    ELSE IF ~exists(f, p.path)
    THEN Ret(f, "NotFound", <<Act("exists", p.path)>>)
    ELSE
      LET r == remove_file(f, p.path, env)
          a == <<Act("exists", p.path), Act("remove", p.path)>> IN
      IF ~r.ok THEN Ret(r.fs, r.kind, a)
      ELSE Ret(append_log(r.fs, DeleteWord \o name, env), "Ok", a)

(***************************************************************************)
(* The file operations called in any order on any names: Spec              *)
(***************************************************************************)
\* the names the operations are called with: a plain name, a name ending in
\* a dot, the empty name, the log's name, a name that begins with a
\* backslash, and one name for each rule of the validator
OpNames == {<<"a">>, <<"a", ".">>, <<>>, LogName,
            <<"\\", "a">>,
            <<"/", "a">>, <<".", ".", "/", "a">>, <<"C", ":", "\\", "a">>}

\* contents of the user's files
Contents == {<<"x">>, <<"y">>}

\* nothing, or one element of S
Opt(S) == {<<>>} \cup {<<x>> : x \in S}

\* a log line written by an earlier run
OldLog == log_line(DeleteWord \o <<"z">>, [ts |-> 0])

\* the regular file at p with content c[1], when c is not empty and p is no
\* directory
FileAt(p, c) == IF c = <<>> \/ p \in Dirs THEN <<>> ELSE <<[path |-> p, content |-> c[1]]>>

FsOf(files) ==
    [p \in {files[i].path : i \in 1..Len(files)} |->
        LET i == CHOOSE j \in 1..Len(files) : files[j].path = p IN files[i].content]

\* the filesystems a run may find: one name's file, its backup and the log,
\* each present or absent (the log's content is always a log's)
InitialFs ==
    {FsOf(FileAt(LogPath, l) \o FileAt(join(BaseDir, bak_name_of(f)), b)
          \o (IF f = LogName THEN <<>> ELSE FileAt(join(BaseDir, f), c))) :
        f \in OpNames, c \in Opt(Contents), b \in Opt(Contents), l \in Opt({OldLog})}

NoCall == [op |-> "none", name |-> <<>>, kind |-> "none", acc |-> <<>>]

Idle ==
    /\ pc = "idle" /\ mainBase = BaseDir /\ filename = <<>> /\ verdict = "none"
    /\ orig = <<>> /\ paused = FALSE /\ exitCode = -1

Init ==
    /\ fs \in InitialFs
    /\ pre = fs
    /\ call = NoCall
    /\ n = 0
    /\ Idle

Returned(op, name, r) ==
    /\ pre' = fs
    /\ fs' = r.fs
    /\ call' = [op |-> op, name |-> name, kind |-> r.kind, acc |-> r.acc]
    /\ n' = n + 1
    /\ UNCHANGED <<pc, mainBase, filename, verdict, orig, paused, exitCode>>

Backup ==
    /\ n < MaxOps
    /\ \E name \in OpNames, env \in Envs :
          Returned("backup", name, backup_file(fs, BaseDir, name, env))

Restore ==
    /\ n < MaxOps
    /\ \E name \in OpNames, env \in Envs :
          Returned("restore", name, restore_file(fs, BaseDir, name, env))

Delete ==
    /\ n < MaxOps
    /\ \E name \in OpNames, env \in Envs :
          Returned("delete", name, delete_file(fs, BaseDir, name, env))

\* main's log entry for a name the validator rejected
AppendLog ==
    /\ n < MaxOps
    /\ \E name \in OpNames, env \in Envs :
          /\ ~is_safe_path_component(name)
          /\ Returned("append_log", name,
                      Ret(append_log(fs, RejectedWord \o name, env), "Ok", <<>>))

Next == Backup \/ Restore \/ Delete \/ AppendLog

Spec == Init /\ [][Next]_vars

(***************************************************************************)
(* The validator applied to every name up to MaxLen: SpecV                 *)
(***************************************************************************)
InitV ==
    /\ filename \in Names
    /\ verdict = "none"
    /\ pc = "input"
    /\ fs = <<>> /\ pre = <<>> /\ call = NoCall /\ n = 0
    /\ mainBase = BaseDir /\ orig = <<>> /\ paused = FALSE /\ exitCode = -1

Validate ==
    /\ pc = "input"
    /\ verdict' = IF is_safe_path_component(filename) THEN "safe" ELSE "unsafe"
    /\ pc' = "validated"
    /\ UNCHANGED <<fs, pre, call, n, mainBase, filename, orig, paused, exitCode>>

NextV == Validate

SpecV == InitV /\ [][NextV]_vars

(***************************************************************************)
(* Backup, a change of the original, restore: SpecRT                       *)
(***************************************************************************)
\* the round trip is run on a filesystem that performs the copies
CopyingEnvs == {e \in Envs : e.io}

InitRT ==
    /\ filename \in {f \in OpNames : is_safe_path_component(f)}
    /\ fs \in {f \in InitialFs : join(BaseDir, filename) \in DOMAIN f}
    /\ orig = fs[join(BaseDir, filename)]
    /\ pre = fs /\ call = NoCall /\ n = 0
    /\ pc = "rt_start"
    /\ mainBase = BaseDir /\ verdict = "safe" /\ paused = FALSE /\ exitCode = -1

RtReturned(op, r, next) ==
    /\ pre' = fs
    /\ fs' = r.fs
    /\ call' = [op |-> op, name |-> filename, kind |-> r.kind, acc |-> r.acc]
    /\ n' = n + 1
    /\ pc' = next
    /\ UNCHANGED <<mainBase, filename, verdict, orig, paused, exitCode>>

RtBackup ==
    /\ pc = "rt_start"
    /\ \E env \in CopyingEnvs :
          RtReturned("backup", backup_file(fs, mainBase, filename, env), "rt_backed")

\* the user changes the original to another content
RtMutate ==
    /\ pc = "rt_backed"
    /\ \E c \in Contents \ {orig} :
          /\ fs' = Put(fs, join(mainBase, filename), c)
          /\ pc' = "rt_mutated"
          /\ UNCHANGED <<pre, call, n, mainBase, filename, verdict, orig, paused, exitCode>>

RtRestore ==
    /\ pc = "rt_mutated"
    /\ \E env \in CopyingEnvs :
          RtReturned("restore", restore_file(fs, mainBase, filename, env), "rt_restored")

NextRT == RtBackup \/ RtMutate \/ RtRestore

SpecRT == InitRT /\ [][NextRT]_vars

(***************************************************************************)
(* The interactive shell, main: SpecShell                                  *)
(***************************************************************************)
Whitespace == {" ", "\n", "\t", "\r"}

RECURSIVE trim_start(_)
trim_start(s) ==
    IF s # <<>> /\ Head(s) \in Whitespace THEN trim_start(Tail(s)) ELSE s

RECURSIVE trim_end(_)
trim_end(s) ==
    IF s # <<>> /\ s[Len(s)] \in Whitespace
    THEN trim_end(SubSeq(s, 1, Len(s) - 1)) ELSE s

\* str::trim
trim(s) == trim_end(trim_start(s))

\* prompt: Err when the flush or the read fails, else the line read, trimmed
\* (read_line gives the empty line at end of input)
prompt(lines) ==
    {[ok |-> FALSE, s |-> <<>>]} \cup {[ok |-> TRUE, s |-> trim(l)] : l \in lines}

CmdBackup == <<"b","a","c","k","u","p">>
CmdRestore == <<"r","e","s","t","o","r","e">>
CmdDelete == <<"d","e","l","e","t","e">>

\* what the user may type at the two prompts
FilenameLines ==
    {name \o Newline : name \in OpNames} \cup {<<" ", "a", " ", "\n">>, <<>>}

CommandLines ==
    {CmdBackup \o Newline, CmdRestore \o Newline, CmdDelete \o Newline,
     <<" ">> \o CmdDelete \o <<"\r", "\n">>,
     <<"B","a","c","k","u","p","\n">>, <<>>}

InitShell ==
    /\ fs \in InitialFs
    /\ pre = fs /\ call = NoCall /\ n = 0
    /\ pc = "main"
    /\ mainBase = <<>>
    /\ filename = <<>> /\ verdict = "none" /\ orig = <<>>
    /\ paused = FALSE /\ exitCode = -1

\* main returns Err: the process ends with code 1
ReturnErr ==
    /\ pc' = "exited"
    /\ exitCode' = 1

\* let base = std::env::current_dir()?
MainStart ==
    /\ pc = "main"
    /\ \/ /\ mainBase' = BaseDir
          /\ pc' = "filename_prompt"
          /\ UNCHANGED exitCode
       \/ /\ ReturnErr
          /\ UNCHANGED mainBase
    /\ UNCHANGED <<fs, pre, call, n, filename, verdict, orig, paused>>

\* the filename prompt and the validation of what was read
MainFilename ==
    /\ pc = "filename_prompt"
    /\ \E r \in prompt(FilenameLines), env \in Envs :
          IF ~r.ok
          THEN /\ ReturnErr
               /\ UNCHANGED <<fs, pre, filename, verdict>>
          ELSE /\ filename' = r.s
               /\ pre' = fs
               /\ UNCHANGED exitCode
               /\ IF ~is_safe_path_component(r.s)
                  THEN /\ verdict' = "unsafe"
                       /\ fs' = append_log(fs, RejectedWord \o r.s, env)
                       /\ pc' = "pause_exit1"
                  ELSE /\ verdict' = "safe"
                       /\ fs' = fs
                       /\ pc' = "command_prompt"
    /\ UNCHANGED <<call, n, mainBase, orig, paused>>

\* the match on the command
dispatch(f, b, name, command, env) ==
    CASE command = CmdBackup -> backup_file(f, b, name, env)
      [] command = CmdRestore -> restore_file(f, b, name, env)
      [] command = CmdDelete -> delete_file(f, b, name, env)
      [] OTHER -> Ret(f, "InvalidCommand", <<>>)

\* the command prompt, the operation and the report
MainCommand ==
    /\ pc = "command_prompt"
    /\ \E r \in prompt(CommandLines), env \in Envs :
          IF ~r.ok
          THEN /\ ReturnErr
               /\ UNCHANGED <<fs, pre, call, n>>
          ELSE LET res == dispatch(fs, mainBase, filename, r.s, env) IN
               /\ pre' = fs
               /\ fs' = res.fs
               /\ call' = [op |-> r.s, name |-> filename, kind |-> res.kind,
                           acc |-> res.acc]
               /\ n' = n + 1
               /\ pc' = IF res.kind = "Ok" THEN "pause_exit0" ELSE "pause_exit1"
               /\ UNCHANGED exitCode
    /\ UNCHANGED <<mainBase, filename, verdict, orig, paused>>

\* wait_for_enter, then the exit
WaitForEnter ==
    /\ pc \in {"pause_exit0", "pause_exit1"}
    /\ paused' = TRUE
    /\ exitCode' = IF pc = "pause_exit0" THEN 0 ELSE 1
    /\ pc' = "exited"
    /\ UNCHANGED <<fs, pre, call, n, mainBase, filename, verdict, orig>>

NextShell == MainStart \/ MainFilename \/ MainCommand \/ WaitForEnter

SpecShell == InitShell /\ [][NextShell]_vars

(***************************************************************************)
(* Properties                                                              *)
(***************************************************************************)
FileOps == {"backup", "restore", "delete"}

PathOf(name) == join(BaseDir, name)

\* C1: for every accepted name of an existing file with content C, backup,
\* then a change of the original, then restore leave the original with
\* content exactly C (checked under SpecRT, where the copies succeed).
C1_RoundTrip ==
    pc = "rt_restored" =>
        /\ PathOf(filename) \in DOMAIN fs
        /\ fs[PathOf(filename)] = orig

\* C2: the log is append-only: the content logfile.txt had before a call of
\* backup_file, restore_file, delete_file or append_log is a prefix of its
\* content after the call.
C2_LogAppendOnly ==
    call.op # "none" => IsPrefix(LogContent(pre), LogContent(fs))

\* the three rules as the claim states them, with both separators in (b)
\* and in (c)
ClaimSeparators == {"/", "\\"}

ClaimRejects(name) ==
    \/ contains(name, DotDot)
    \/ Len(name) >= 1 /\ name[1] \in ClaimSeparators
    \/ Len(name) >= 3 /\ name[1] \in AsciiLetters /\ name[2] = ":"
                      /\ name[3] \in ClaimSeparators

\* C3: is_safe_path_component returns false exactly when the name contains
\* "..", or begins with a separator, or begins with letter, colon, separator,
\* the separators being '/' and '\' in both rules.
C3_ValidatorRules ==
    pc = "validated" => (verdict = "unsafe" <=> ClaimRejects(filename))

\* C4: every filesystem action of backup_file, restore_file and delete_file
\* is on the path of a name the validator accepted (the filename or its
\* backup name), and for a rejected filename there is no action at all and
\* the filesystem is unchanged.
C4_ValidatedBeforeAction ==
    call.op \in FileOps =>
        /\ \A i \in 1..Len(call.acc) :
              \E nm \in {call.name, bak_name_of(call.name)} :
                  /\ is_safe_path_component(nm)
                  /\ call.acc[i].path = PathOf(nm)
        /\ ~is_safe_path_component(call.name) => (call.acc = <<>> /\ fs = pre)

\* a rejected name whose file exists was passed to delete_file
C4_Witness ==
    /\ call.op = "delete"
    /\ ~is_safe_path_component(call.name)
    /\ PathOf(call.name) \in DOMAIN pre

\* C5 as stated: delete_file on any filename whose file does not exist
\* returns NotFound, changes no file and appends no log line.
C5_Original ==
    (call.op = "delete" /\ ~exists(pre, PathOf(call.name))) =>
        (call.kind = "NotFound" /\ fs = pre)

\* C5 amended: delete_file on a filename the validator accepts whose file
\* does not exist returns NotFound, changes no file and appends no log line.
C5_DeleteMissing ==
    (call.op = "delete" /\ is_safe_path_component(call.name)
        /\ ~exists(pre, PathOf(call.name))) =>
        (call.kind = "NotFound" /\ fs = pre)

\* delete_file returned NotFound for an accepted name while other files and
\* the log exist
C5_Witness ==
    /\ call.op = "delete"
    /\ is_safe_path_component(call.name)
    /\ ~exists(pre, PathOf(call.name))
    /\ call.kind = "NotFound"
    /\ LogPath \in DOMAIN pre
    /\ Cardinality(DOMAIN pre) >= 2

\* C6: restore_file on an accepted filename with no '<filename>.bak' returns
\* NotFound, leaves the destination (and every file) unchanged and appends
\* no log line.
C6_RestoreMissing ==
    (call.op = "restore" /\ is_safe_path_component(call.name)
        /\ PathOf(bak_name_of(call.name)) \notin DOMAIN pre) =>
        (call.kind = "NotFound" /\ fs = pre)

\* C7 as stated: backup_file fails with NotFound when the filename is
\* rejected by the validator, as well as when the source does not exist.
C7_Original ==
    (call.op = "backup"
        /\ (~is_safe_path_component(call.name) \/ ~exists(pre, PathOf(call.name)))) =>
        call.kind = "NotFound"

\* C7 amended: backup_file fails with InvalidInput when the filename is
\* rejected by the validator, and with NotFound when the filename is
\* accepted and the source does not exist.
C7_BackupErrorKinds ==
    call.op = "backup" =>
        /\ ~is_safe_path_component(call.name) => call.kind = "InvalidInput"
        /\ (is_safe_path_component(call.name) /\ ~exists(pre, PathOf(call.name)))
              => call.kind = "NotFound"

\* backup_file was called with a rejected name
C7_Witness ==
    /\ call.op = "backup"
    /\ ~is_safe_path_component(call.name)
    /\ call.kind = "InvalidInput"

\* C8: every run of main that ends after the base directory was captured has
\* executed wait_for_enter.
C8_PauseBeforeExit ==
    (pc = "exited" /\ mainBase # <<>>) => paused

\* C9: for every accepted filename the backup name filename + ".bak" is
\* accepted too, so backup_file and restore_file never fail with
\* InvalidInput on a filename that passed validation.
C9_BackupNameAccepted ==
    (call.op \in {"backup", "restore"} /\ is_safe_path_component(call.name)) =>
        /\ is_safe_path_component(bak_name_of(call.name))
        /\ call.kind # "InvalidInput"

\* C10: when delete_file returns success for an accepted filename, no file
\* of that name exists when it returns, and every other file except
\* logfile.txt is unchanged.
C10_DeletedIsGone ==
    (call.op = "delete" /\ call.kind = "Ok" /\ is_safe_path_component(call.name)) =>
        /\ PathOf(call.name) \notin DOMAIN fs
        /\ \A p \in (DOMAIN pre \cup DOMAIN fs) \ {LogPath, PathOf(call.name)} :
              p \in DOMAIN pre /\ p \in DOMAIN fs /\ fs[p] = pre[p]

====
